---- MODULE Spec2Model ----
(***************************************************************************)
(* Trading Signals API (src/api.py): the in-memory job store, the          *)
(* background scan worker _run_scan, the request handlers and the          *)
(* retrying history fetch, as a state machine.                             *)
(*                                                                         *)
(* Threads: every handler call and every worker is a Python thread; the    *)
(* steps below are the points at which another thread can see the shared   *)
(* dictionaries jobs and latest_results.  A dict.update / dict store with  *)
(* string keys is one step.                                                *)
(***************************************************************************)
EXTENDS Integers, Sequences, FiniteSets, TLC

\* ------------------------------------------------------------------ bounds
MaxJobs == 2        \* start_scan calls in one run
MaxLines == 2       \* lines of top_indices_symbols.txt
MaxClock == 1       \* readings of datetime.now() that differ
MaxRetriesBound == 3  \* largest max_retries handed to fetch_history

\* ---------------------------------------------------------------- constants
None == "None"
NoSignal == [signal |-> None]       \* an evaluator returning None
NoTime == -1                        \* "completed_at": None
JobIds == 1..MaxJobs
UnknownId == 0                      \* an id uuid4 never handed out
ScanTypes == {"ema_daily", "ema_weekly", "sma50"}
ScanTypeInputs == ScanTypes \cup {"rsi"}   \* path parameter of /api/scan/latest
TickerList == <<"AAA", "BBB", "CCC", "DDD">>
Missing == [exists |-> FALSE, lines |-> <<>>]   \* open() raises FileNotFoundError

VARIABLES jobs, latest_results, worker, handler, calls, delays, now, fh, ev, poll, lister, calc

vars == <<jobs, latest_results, worker, handler, calls, delays, now, fh, ev, poll, lister, calc>>

\* ------------------------------------------------------------ load_symbols
RECURSIVE NonBlank(_)
NonBlank(lines) ==
    IF lines = <<>> THEN <<>>
    ELSE IF Head(lines) # "" THEN <<Head(lines)>> \o NonBlank(Tail(lines))
    ELSE NonBlank(Tail(lines))

\* The file as read: line k holds the k-th ticker or, stripped, nothing.
FileLines(k) == {TickerList[k], ""}
Files ==
    {Missing} \cup {[exists |-> TRUE, lines |-> l] :
                       l \in UNION {{f \in [1..n -> {TickerList[k] : k \in 1..n} \cup {""}] :
                                       \A k \in 1..n : f[k] \in FileLines(k)} :
                                    n \in 0..MaxLines}}

load_symbols(file) == IF ~file.exists THEN <<>> ELSE NonBlank(file.lines)

\* ------------------------------------------------------------- indicators
\* A value of a series is a fraction num / den; NaN is the value without one.
NaN == [num |-> 0, den |-> 0]

\* prices.ewm(span=span, adjust=False).mean(): y[0] = x[0] and
\* y[t] = (1 - a) * y[t-1] + a * x[t] with a = 2 / (span + 1)
RECURSIVE ewm_mean(_, _)
ewm_mean(prices, span) ==
    IF prices = <<>> THEN <<>>
    ELSE IF Len(prices) = 1 THEN <<[num |-> prices[1], den |-> 1]>>
    ELSE LET before == ewm_mean(SubSeq(prices, 1, Len(prices) - 1), span)
             y == before[Len(before)]
         IN  Append(before, [num |-> (span - 1) * y.num + 2 * prices[Len(prices)] * y.den,
                             den |-> (span + 1) * y.den])

\* the sum the rolling window carries to position k: the new price comes in
\* and the price that left the window goes out
RECURSIVE rolling_sum(_, _, _)
rolling_sum(prices, window, k) ==
    IF k = 0 THEN 0
    ELSE rolling_sum(prices, window, k - 1) + prices[k]
         - (IF k > window THEN prices[k - window] ELSE 0)

\* rolling(window, min_periods=1): the mean of what the window holds so far
rolling_mean_minPeriods1(prices, window) ==
    [k \in 1..Len(prices) |->
        [num |-> rolling_sum(prices, window, k),
         den |-> IF k < window THEN k ELSE window]]

\* prices.rolling(window=window).mean(): min_periods is the window
rolling_mean(prices, window) ==
    [k \in 1..Len(prices) |->
        IF k < window THEN NaN
        ELSE [num |-> rolling_sum(prices, window, k), den |-> window]]

\* line 68-71
calculate_ema(prices, period) ==
    IF Len(prices) < period THEN [none |-> TRUE, values |-> <<>>]
    ELSE [none |-> FALSE, values |-> ewm_mean(prices, period)]

\* line 74-77
calculate_sma(prices, period) ==
    IF Len(prices) < period THEN [none |-> TRUE, values |-> <<>>]
    ELSE [none |-> FALSE, values |-> rolling_mean(prices, period)]

\* ------------------------------------------------------------- evaluators
\* Prices are integers in thousandths; round(x, 2) keeps hundredths, ties to even.
Round2(x) ==
    LET q == x \div 10
        r == x % 10
    IN  IF r < 5 THEN 10 * q
        ELSE IF r > 5 THEN 10 * (q + 1)
        ELSE IF q % 2 = 0 THEN 10 * q ELSE 10 * (q + 1)

\* A fetched frame after the indicator columns are added: n bars, the last row
\* (Close, EMA10, EMA20, EMA40) and the row before it (Close, EMA10).
EmptyFrame == [n |-> 0, Close |-> 0, EMA10 |-> 0, EMA20 |-> 0, EMA40 |-> 0,
               prevClose |-> 0, prevEMA10 |-> 0]
CrossFrame == [n |-> 41, Close |-> 10400, EMA10 |-> 10300, EMA20 |-> 10200,
               EMA40 |-> 10100, prevClose |-> 10000, prevEMA10 |-> 10100]
ShortFrame == [CrossFrame EXCEPT !.n = 40]
StaleFrame == [CrossFrame EXCEPT !.prevClose = 10100]
EmaFrames == {EmptyFrame, ShortFrame, CrossFrame, StaleFrame}

\* Frames for single calls of the evaluators: prices in thousandths around
\* 10.00 so that rounding to cents moves some of them onto each other.
EvalPrices == {9990, 10000, 10004, 10006, 10010, 10014, 10020}
EvalPrevPrices == {10000, 10004}
EvalEmaFrames ==
    {EmptyFrame} \cup
    [n : {40, 41}, Close : EvalPrices, EMA10 : EvalPrices, EMA20 : EvalPrices,
     EMA40 : EvalPrices, prevClose : EvalPrevPrices, prevEMA10 : EvalPrevPrices]

\* line 133 / 186 with >= for >: a close on the EMA10 counts as above it
analyze_ema_atOrAbove(symbol, timeframe, df) ==
    IF df.n = 0 \/ df.n < 41 THEN NoSignal
    ELSE LET price == Round2(df.Close)
             ema10 == Round2(df.EMA10)
             ema20 == Round2(df.EMA20)
             ema40 == Round2(df.EMA40)
             c1 == price >= ema10
             c2 == price > ema20
             c3 == price > ema40
             c4 == df.prevClose < df.prevEMA10
             c5 == ema20 > ema40
             c6 == ema10 > ema20
         IN  IF c1 /\ c2 /\ c3 /\ c4 /\ c5 /\ c6
             THEN [symbol |-> symbol, signal |-> "BULLISH", timeframe |-> timeframe,
                   price |-> price, ema10 |-> ema10, ema20 |-> ema20, ema40 |-> ema40]
             ELSE NoSignal

analyze_ema(symbol, timeframe, df) ==
    IF df.n = 0 \/ df.n < 41 THEN NoSignal
    ELSE LET price == Round2(df.Close)
             ema10 == Round2(df.EMA10)
             ema20 == Round2(df.EMA20)
             ema40 == Round2(df.EMA40)
             c1 == price > ema10
             c2 == price > ema20
             c3 == price > ema40
             c4 == df.prevClose < df.prevEMA10
             c5 == ema20 > ema40
             c6 == ema10 > ema20
         IN  IF c1 /\ c2 /\ c3 /\ c4 /\ c5 /\ c6
             THEN [symbol |-> symbol, signal |-> "BULLISH", timeframe |-> timeframe,
                   price |-> price, ema10 |-> ema10, ema20 |-> ema20, ema40 |-> ema40]
             ELSE NoSignal

analyze_ema_daily(symbol, df) == analyze_ema(symbol, "daily", df)

analyze_ema_weekly(symbol, df) == analyze_ema(symbol, "weekly", df)

\* A frame for one interval of the SMA50 scan: n bars, last Close and SMA50.
\* fault: a statement of the try block raises on this frame.
SmaEmpty == [n |-> 0, Close |-> 0, SMA50 |-> 0, fault |-> FALSE]
SmaAbove == [n |-> 51, Close |-> 10100, SMA50 |-> 10000, fault |-> FALSE]
SmaBelow == [n |-> 51, Close |-> 10000, SMA50 |-> 10100, fault |-> FALSE]
SmaFrames == {SmaEmpty, SmaAbove, SmaBelow}

SmaFault == [SmaAbove EXCEPT !.fault = TRUE]
EvalSmaPrices == {10000, 10004, 10010}
EvalSmaFrames ==
    {SmaEmpty, SmaFault} \cup
    [n : {50, 51}, Close : EvalSmaPrices, SMA50 : EvalSmaPrices, fault : {FALSE}]

get_sma_position(df) ==
    IF df.fault THEN <<None, None, None>>
    ELSE IF df.n = 0 \/ df.n < 51 THEN <<None, None, None>>
    ELSE LET price == Round2(df.Close)
             sma == Round2(df.SMA50)
         IN  <<IF price > sma THEN "above" ELSE "below", price, sma>>

\* line 243-257 with the BEARISH branch of the standalone scanner added
analyze_sma50_bearish(symbol, dfs) ==
    LET d == get_sma_position(dfs[1])
        h == get_sma_position(dfs[2])
        m == get_sma_position(dfs[3])
    IN  IF None \in {d[1], h[1], m[1]} THEN NoSignal
        ELSE IF d[1] = "above" /\ h[1] = "above" /\ m[1] = "above"
        THEN [symbol |-> symbol, signal |-> "BULLISH", timeframe |-> "daily+1h+15m",
              daily_price |-> d[2], daily_sma50 |-> d[3],
              hourly_price |-> h[2], hourly_sma50 |-> h[3],
              min15_price |-> m[2], min15_sma50 |-> m[3]]
        ELSE IF d[1] = "below" /\ h[1] = "below" /\ m[1] = "below"
        THEN [symbol |-> symbol, signal |-> "BEARISH", timeframe |-> "daily+1h+15m",
              daily_price |-> d[2], daily_sma50 |-> d[3],
              hourly_price |-> h[2], hourly_sma50 |-> h[3],
              min15_price |-> m[2], min15_sma50 |-> m[3]]
        ELSE NoSignal

analyze_sma50(symbol, dfs) ==
    LET d == get_sma_position(dfs[1])
        h == get_sma_position(dfs[2])
        m == get_sma_position(dfs[3])
    IN  IF None \in {d[1], h[1], m[1]} THEN NoSignal
        ELSE IF d[1] = "above" /\ h[1] = "above" /\ m[1] = "above"
        THEN [symbol |-> symbol, signal |-> "BULLISH", timeframe |-> "daily+1h+15m",
              daily_price |-> d[2], daily_sma50 |-> d[3],
              hourly_price |-> h[2], hourly_sma50 |-> h[3],
              min15_price |-> m[2], min15_sma50 |-> m[3]]
        ELSE NoSignal

\* ------------------------------------------- src/sma50.py, the scanner alone
\* get_sma_position of src/sma50.py: the provider is asked once, without the
\* retries of fetch_history; what it raises is caught the same way
sma50_get_sma_position(df) ==
    IF df.fault THEN <<None, None, None>>
    ELSE IF df.n = 0 \/ df.n < 51 THEN <<None, None, None>>
    ELSE LET price == Round2(df.Close)
             sma == Round2(df.SMA50)
         IN  <<IF price > sma THEN "above" ELSE "below", price, sma>>

Alignment(symbol, signal, d, h, m) ==
    [Symbol |-> symbol, Signal |-> signal,
     Daily_Price |-> d[2], Daily_SMA50 |-> d[3],
     Hourly_Price |-> h[2], Hourly_SMA50 |-> h[3],
     Min15_Price |-> m[2], Min15_SMA50 |-> m[3]]

\* line 69-120 without the elif of line 101
analyze_multi_timeframe_bullishOnly(symbol, dfs) ==
    LET d == sma50_get_sma_position(dfs[1])
        h == sma50_get_sma_position(dfs[2])
        m == sma50_get_sma_position(dfs[3])
    IN  IF None \in {d[1], h[1], m[1]} THEN NoSignal
        ELSE IF d[1] = "above" /\ h[1] = "above" /\ m[1] = "above"
        THEN Alignment(symbol, "BULLISH (All Above SMA50)", d, h, m)
        ELSE NoSignal

\* line 69-120
analyze_multi_timeframe(symbol, dfs) ==
    LET d == sma50_get_sma_position(dfs[1])
        h == sma50_get_sma_position(dfs[2])
        m == sma50_get_sma_position(dfs[3])
        all_above == d[1] = "above" /\ h[1] = "above" /\ m[1] = "above"
        all_below == d[1] = "below" /\ h[1] = "below" /\ m[1] = "below"
    IN  IF None \in {d[1], h[1], m[1]} THEN NoSignal
        ELSE IF all_above THEN Alignment(symbol, "BULLISH (All Above SMA50)", d, h, m)
        ELSE IF all_below THEN Alignment(symbol, "BEARISH (All Below SMA50)", d, h, m)
        ELSE NoSignal

\* ------------------------------------------------------------- SCAN_CONFIG
\* line 265-269 with the delay of the EMA scans for all three
SCAN_CONFIG_oneDelay ==
    [ema_daily  |-> [delay |-> 5, label |-> "EMA Daily"],
     ema_weekly |-> [delay |-> 5, label |-> "EMA Weekly"],
     sma50      |-> [delay |-> 5, label |-> "SMA50 Multi-TF"]]

\* delay in tenths of a second
SCAN_CONFIG ==
    [ema_daily  |-> [delay |-> 5,  label |-> "EMA Daily"],
     ema_weekly |-> [delay |-> 5,  label |-> "EMA Weekly"],
     sma50      |-> [delay |-> 10, label |-> "SMA50 Multi-TF"]]

\* What the market can hand the scan type's evaluator for one symbol.
Market(scan_type) ==
    IF scan_type = "sma50" THEN [1..3 -> SmaFrames] ELSE EmaFrames

cfg_fn(scan_type, symbol, data) ==
    CASE scan_type = "ema_daily"  -> analyze_ema_daily(symbol, data)
      [] scan_type = "ema_weekly" -> analyze_ema_weekly(symbol, data)
      [] scan_type = "sma50"      -> analyze_sma50(symbol, data)

\* ------------------------------------------------------------ list objects
\* jobs[j]["results"] is a reference: to the list literal start_scan made, or to
\* the list `results` local to job j's worker.
InitialList(j) == [list |-> "initial", job |-> j]
LocalList(j) == [list |-> "local", job |-> j]
Deref(ref) == IF ref.list = "initial" THEN <<>> ELSE worker[ref.job].results

\* datetime.now(): time does not run backwards; MaxClock caps the readings
Clock == IF now < MaxClock THEN {now, now + 1} ELSE {now}

\* One call of fetch_history: where it stands, its arguments, the loop variable,
\* what the provider answered so far, the sleeps taken and the frame returned.
IdleFetch == [pc |-> "idle", symbol |-> None, interval |-> None, max_retries |-> 0,
              attempt |-> 0, log |-> <<>>, sleeps |-> <<>>, df |-> EmptyFrame]

\* One call of an evaluator outside a scan (/api/analyze): its scanner, the
\* frames the fetches returned and what it returned.
NoEvaluation == [fn |-> None, data |-> <<>>, result |-> NoSignal]

\* One call of scan_status: where it stands and what it has read so far.
NoResponse == [code |-> 0, status |-> None, progress |-> 0, total |-> 0, percent |-> 0,
               results_so_far |-> 0, results_count |-> 0, completed_at |-> NoTime,
               results |-> <<>>]
NoPoll == [pc |-> "idle", job_id |-> 0, num |-> 0, pct |-> 0, ref |-> InitialList(0),
           response |-> NoResponse]

\* One call of list_jobs: where it stands, the dict iterator (the size it saw
\* when made, the entries it has passed) and the summary built.
NoListing == [pc |-> "idle", used |-> 0, pos |-> 0, summary |-> <<>>,
              response |-> [code |-> 0, jobs |-> <<>>]]

\* One call of calculate_ema or calculate_sma: which, its arguments and what
\* it returned (None, or a series).
NoCalculation == [fn |-> None, prices |-> <<>>, period |-> 0,
                  result |-> [none |-> TRUE, values |-> <<>>]]

Init ==
    /\ jobs = <<>>
    /\ latest_results = <<>>
    /\ worker = [j \in JobIds |-> [pc |-> "unstarted", symbols |-> <<>>, results |-> <<>>,
                                   i |-> 0, completed_at |-> NoTime]]
    /\ handler = [j \in JobIds |-> "idle"]
    /\ calls = [j \in JobIds |-> <<>>]
    /\ delays = [j \in JobIds |-> <<>>]
    /\ now = 0
    /\ fh = IdleFetch
    /\ ev = NoEvaluation
    /\ poll = NoPoll
    /\ lister = NoListing
    /\ calc = NoCalculation

\* --------------------------------------------------------------- start_scan
NewJob(job_id, scan_type, started_at) ==
    [job_id |-> job_id, scan_type |-> scan_type, label |-> SCAN_CONFIG[scan_type].label,
     status |-> "queued", progress |-> 0, total |-> 0, results |-> InitialList(job_id),
     started_at |-> started_at, completed_at |-> NoTime, error |-> None]

\* line 367-378: a fresh id, the record stored under it
StartInsert(scan_type) ==
    LET job_id == Cardinality(DOMAIN jobs) + 1
    IN  /\ job_id \in JobIds
        /\ \E t \in Clock :
             /\ now' = t
             /\ jobs' = (job_id :> NewJob(job_id, scan_type, t)) @@ jobs
        /\ handler' = [handler EXCEPT ![job_id] = "inserted"]
        /\ UNCHANGED <<latest_results, worker, calls, delays, fh, ev, poll, lister, calc>>

\* line 380-381: thread.start()
StartThread(job_id) ==
    /\ handler[job_id] = "inserted"
    /\ handler' = [handler EXCEPT ![job_id] = "launched"]
    /\ worker' = [worker EXCEPT ![job_id].pc = "load"]
    /\ UNCHANGED <<jobs, latest_results, calls, delays, now, fh, ev, poll, lister, calc>>

\* line 383-388: the id goes back to the client
StartReturn(job_id) ==
    /\ handler[job_id] = "launched"
    /\ handler' = [handler EXCEPT ![job_id] = "returned"]
    /\ UNCHANGED <<jobs, latest_results, worker, calls, delays, now, fh, ev, poll, lister, calc>>

\* the ids start_scan has returned to a client
Issued == {j \in JobIds : handler[j] = "returned"}

\* ---------------------------------------------------------------- _run_scan
\* line 275 without the "error" key
FailedUpdate_noMessage(job) == [job EXCEPT !.status = "failed"]

FailedUpdate(job) ==
    [job EXCEPT !.status = "failed", !.error = "top_indices_symbols.txt not found"]

\* line 282 without the "total" key
RunningUpdate_noTotal(job, total) == [job EXCEPT !.status = "running", !.progress = 0]

RunningUpdate(job, total) ==
    [job EXCEPT !.status = "running", !.total = total, !.progress = 0]

\* line 293-298 without the "completed_at" key
CompletedUpdate_noStamp(job, completed_at, results) ==
    [job EXCEPT !.status = "completed", !.results = results]

\* line 293-298
CompletedUpdate(job, completed_at, results) ==
    [job EXCEPT !.status = "completed", !.completed_at = completed_at,
                !.results = results]

\* line 302-308 with len(results) for total_scanned too
LatestEntry_countForTotal(scan_type, completed_at, total, results) ==
    [scan_type |-> scan_type, label |-> SCAN_CONFIG[scan_type].label,
     completed_at |-> completed_at, total_scanned |-> Len(Deref(results)),
     results_count |-> Len(Deref(results)), results |-> results]

\* line 302-308 with the count left at the 0 of a fresh scan
LatestEntry_noCount(scan_type, completed_at, total, results) ==
    [scan_type |-> scan_type, label |-> SCAN_CONFIG[scan_type].label,
     completed_at |-> completed_at, total_scanned |-> total,
     results_count |-> 0, results |-> results]

\* line 302-308
LatestEntry(scan_type, completed_at, total, results) ==
    [scan_type |-> scan_type, label |-> SCAN_CONFIG[scan_type].label,
     completed_at |-> completed_at, total_scanned |-> total,
     results_count |-> Len(Deref(results)), results |-> results]

\* line 273-276 without the return of line 276
WorkerLoad_noReturn(j) ==
    /\ worker[j].pc = "load"
    /\ \E file \in Files :
         LET symbols == load_symbols(file)
         IN  /\ jobs' = IF symbols = <<>> THEN [jobs EXCEPT ![j] = FailedUpdate(@)] ELSE jobs
             /\ worker' = [worker EXCEPT ![j].pc = "begin", ![j].symbols = symbols]
    /\ UNCHANGED <<latest_results, handler, calls, delays, now, fh, ev, poll, lister, calc>>

\* line 273-276
WorkerLoad(j) ==
    /\ worker[j].pc = "load"
    /\ \E file \in Files :
         LET symbols == load_symbols(file)
         IN  IF symbols = <<>>
             THEN /\ jobs' = [jobs EXCEPT ![j] = FailedUpdate(@)]
                  /\ worker' = [worker EXCEPT ![j].pc = "done"]
             ELSE /\ worker' = [worker EXCEPT ![j].pc = "begin", ![j].symbols = symbols]
                  /\ UNCHANGED jobs
    /\ UNCHANGED <<latest_results, handler, calls, delays, now, fh, ev, poll, lister, calc>>

\* line 278-282
WorkerBegin(j) ==
    /\ worker[j].pc = "begin"
    /\ jobs' = [jobs EXCEPT ![j] = RunningUpdate(@, Len(worker[j].symbols))]
    /\ worker' = [worker EXCEPT ![j].pc = IF worker[j].symbols # <<>> THEN "eval" ELSE "finish",
                                 ![j].i = IF worker[j].symbols # <<>> THEN 1 ELSE 0,
                                 ![j].results = <<>>]
    /\ UNCHANGED <<latest_results, handler, calls, delays, now, fh, ev, poll, lister, calc>>

\* line 285 with an evaluator that lets its fault out: the thread ends there
WorkerEval_faultEscapes(j) ==
    /\ worker[j].pc = "eval"
    /\ LET symbol == worker[j].symbols[worker[j].i]
       IN  \E data \in Market(jobs[j].scan_type) :
             LET result == cfg_fn(jobs[j].scan_type, symbol, data)
             IN  /\ worker' = [worker EXCEPT ![j].pc = IF result # NoSignal THEN "progress"
                                                       ELSE "raised",
                                  ![j].results = IF result # NoSignal THEN Append(@, result) ELSE @]
                 /\ calls' = [calls EXCEPT ![j] = Append(@, [symbol |-> symbol, result |-> result])]
    /\ UNCHANGED <<jobs, latest_results, handler, delays, now, fh, ev, poll, lister, calc>>

\* line 285-287: the evaluator, and the append to the worker's list
WorkerEval(j) ==
    /\ worker[j].pc = "eval"
    /\ LET symbol == worker[j].symbols[worker[j].i]
       IN  \E data \in Market(jobs[j].scan_type) :
             LET result == cfg_fn(jobs[j].scan_type, symbol, data)
             IN  /\ worker' = [worker EXCEPT ![j].pc = "progress",
                                  ![j].results = IF result # NoSignal THEN Append(@, result) ELSE @]
                 /\ calls' = [calls EXCEPT ![j] = Append(@, [symbol |-> symbol, result |-> result])]
    /\ UNCHANGED <<jobs, latest_results, handler, delays, now, fh, ev, poll, lister, calc>>

\* line 289
WorkerProgress(j) ==
    /\ worker[j].pc = "progress"
    /\ jobs' = [jobs EXCEPT ![j].progress = worker[j].i]
    /\ worker' = [worker EXCEPT ![j].pc = "publish"]
    /\ UNCHANGED <<latest_results, handler, calls, delays, now, fh, ev, poll, lister, calc>>

\* line 290
WorkerPublish(j) ==
    /\ worker[j].pc = "publish"
    /\ jobs' = [jobs EXCEPT ![j].results = LocalList(j)]
    /\ worker' = [worker EXCEPT ![j].pc = "sleep"]
    /\ UNCHANGED <<latest_results, handler, calls, delays, now, fh, ev, poll, lister, calc>>

\* line 291 with the loop ending one symbol early
WorkerSleep_skipLast(j) ==
    /\ worker[j].pc = "sleep"
    /\ delays' = [delays EXCEPT ![j] = Append(@, SCAN_CONFIG[jobs[j].scan_type].delay)]
    /\ worker' = IF worker[j].i < Len(worker[j].symbols) - 1
                 THEN [worker EXCEPT ![j].pc = "eval", ![j].i = @ + 1]
                 ELSE [worker EXCEPT ![j].pc = "finish"]
    /\ UNCHANGED <<jobs, latest_results, handler, calls, now, fh, ev, poll, lister, calc>>

\* line 291, and the loop's next turn or its end
WorkerSleep(j) ==
    /\ worker[j].pc = "sleep"
    /\ delays' = [delays EXCEPT ![j] = Append(@, SCAN_CONFIG[jobs[j].scan_type].delay)]
    /\ worker' = IF worker[j].i < Len(worker[j].symbols)
                 THEN [worker EXCEPT ![j].pc = "eval", ![j].i = @ + 1]
                 ELSE [worker EXCEPT ![j].pc = "finish"]
    /\ UNCHANGED <<jobs, latest_results, handler, calls, now, fh, ev, poll, lister, calc>>

\* line 293-298
WorkerFinish(j) ==
    /\ worker[j].pc = "finish"
    /\ \E t \in Clock :
         /\ now' = t
         /\ jobs' = [jobs EXCEPT ![j] = CompletedUpdate(@, t, LocalList(j))]
         /\ worker' = [worker EXCEPT ![j].pc = "snapshot", ![j].completed_at = t]
    /\ UNCHANGED <<latest_results, handler, calls, delays, fh, ev, poll, lister, calc>>

\* line 301 with the key of one scan type written out
WorkerSnapshot_oneKey(j) ==
    /\ worker[j].pc = "snapshot"
    /\ LET scan_type == jobs[j].scan_type
       IN  latest_results' =
             ("ema_daily" :> LatestEntry(scan_type, worker[j].completed_at,
                                         Len(worker[j].symbols), LocalList(j)))
             @@ latest_results
    /\ worker' = [worker EXCEPT ![j].pc = "done"]
    /\ UNCHANGED <<jobs, handler, calls, delays, now, fh, ev, poll, lister, calc>>

\* line 301-308
WorkerSnapshot(j) ==
    /\ worker[j].pc = "snapshot"
    /\ LET scan_type == jobs[j].scan_type
       IN  latest_results' =
             (scan_type :> LatestEntry(scan_type, worker[j].completed_at,
                                       Len(worker[j].symbols), LocalList(j)))
             @@ latest_results
    /\ worker' = [worker EXCEPT ![j].pc = "done"]
    /\ UNCHANGED <<jobs, handler, calls, delays, now, fh, ev, poll, lister, calc>>

\* ----------------------------------------------------------------- handlers
\* round(progress / total * 100, 1), in tenths of a percent, ties to even
Percent(progress, total) ==
    IF total = 0 THEN 0
    ELSE LET q == (progress * 1000) \div total
             r == (progress * 1000) % total
         IN  IF 2 * r < total THEN q
             ELSE IF 2 * r > total THEN q + 1
             ELSE IF q % 2 = 0 THEN q ELSE q + 1

NotFound(detail) == [code |-> 404, detail |-> detail]

\* line 394-395 answering an unknown id with an empty payload
scan_status_default(job_id) ==
    IF job_id \notin DOMAIN jobs
    THEN [code |-> 200, job_id |-> job_id, status |-> None, progress |-> 0, total |-> 0,
          percent |-> 0, results |-> <<>>]
    ELSE [code |-> 200, job_id |-> job_id, status |-> jobs[job_id].status,
          progress |-> jobs[job_id].progress, total |-> jobs[job_id].total,
          percent |-> Percent(jobs[job_id].progress, jobs[job_id].total),
          results |-> Deref(jobs[job_id].results)]

scan_status(job_id) ==
    IF job_id \notin DOMAIN jobs THEN NotFound("Job not found")
    ELSE LET job == jobs[job_id]
         IN  [code |-> 200, job_id |-> job_id, scan_type |-> job.scan_type,
              label |-> job.label, status |-> job.status, progress |-> job.progress,
              total |-> job.total, percent |-> Percent(job.progress, job.total),
              results_so_far |-> Len(Deref(job.results)),
              results_count |-> Len(Deref(job.results)),
              started_at |-> job.started_at, completed_at |-> job.completed_at,
              results |-> Deref(job.results)]

scan_results(job_id) ==
    IF job_id \notin DOMAIN jobs THEN NotFound("Job not found")
    ELSE LET job == jobs[job_id]
         IN  [code |-> 200, job_id |-> job_id, scan_type |-> job.scan_type,
              label |-> job.label, status |-> job.status,
              total_scanned |-> job.progress,
              results_count |-> Len(Deref(job.results)),
              results |-> Deref(job.results),
              started_at |-> job.started_at, completed_at |-> job.completed_at]

\* line 446-449 with the two checks in the other order
latest_scan_results_swapped(scan_type) ==
    IF scan_type \notin DOMAIN latest_results
    THEN NotFound("No completed scan found for this type yet. Run a scan first.")
    ELSE IF scan_type \notin DOMAIN SCAN_CONFIG
    THEN [code |-> 400, detail |-> "Unknown scan_type"]
    ELSE [code |-> 200, scan_type |-> latest_results[scan_type].scan_type,
          completed_at |-> latest_results[scan_type].completed_at,
          results |-> Deref(latest_results[scan_type].results)]

latest_scan_results(scan_type) ==
    IF scan_type \notin DOMAIN SCAN_CONFIG THEN [code |-> 400, detail |-> "Unknown scan_type"]
    ELSE IF scan_type \notin DOMAIN latest_results
    THEN NotFound("No completed scan found for this type yet. Run a scan first.")
    ELSE LET e == latest_results[scan_type]
         IN  [code |-> 200, scan_type |-> e.scan_type, label |-> e.label,
              completed_at |-> e.completed_at, total_scanned |-> e.total_scanned,
              results_count |-> e.results_count, results |-> Deref(e.results)]

\* line 458-468: the summary of one job
Summary(jid) ==
    LET job == jobs[jid]
    IN  [job_id |-> jid, scan_type |-> job.scan_type, label |-> job.label,
         status |-> job.status, percent |-> Percent(job.progress, job.total),
         results_count |-> Len(Deref(job.results)),
         started_at |-> job.started_at, completed_at |-> job.completed_at]

\* sorted(.., key=started_at) is stable: equal keys stay in the order they had
RECURSIVE InsertAscending(_, _)
InsertAscending(x, l) ==
    IF l = <<>> THEN <<x>>
    ELSE IF Head(l).started_at <= x.started_at THEN <<Head(l)>> \o InsertAscending(x, Tail(l))
    ELSE <<x>> \o l

\* line 469 without reverse=True
RECURSIVE sorted_ascending(_)
sorted_ascending(l) ==
    IF l = <<>> THEN <<>>
    ELSE InsertAscending(l[Len(l)], sorted_ascending(SubSeq(l, 1, Len(l) - 1)))

\* sorted(.., reverse=True) is stable too: a later element goes behind the
\* elements whose key is at least its own
RECURSIVE InsertDescending(_, _)
InsertDescending(x, l) ==
    IF l = <<>> THEN <<x>>
    ELSE IF Head(l).started_at >= x.started_at THEN <<Head(l)>> \o InsertDescending(x, Tail(l))
    ELSE <<x>> \o l

\* line 469: sorted(summary, key=lambda x: x["started_at"] or "", reverse=True)
RECURSIVE sorted_reverse(_)
sorted_reverse(l) ==
    IF l = <<>> THEN <<>>
    ELSE InsertDescending(l[Len(l)], sorted_reverse(SubSeq(l, 1, Len(l) - 1)))

\* line 454-469 run without another thread in between; the dictionary is
\* iterated in insertion order, the order of the ids
list_jobs ==
    [code |-> 200,
     jobs |-> sorted_reverse([jid \in 1..Cardinality(DOMAIN jobs) |-> Summary(jid)])]

\* A client asks about the ids it was given, or about an id never handed out.
ClientIds == Issued \cup {UnknownId}

\* The handlers read the two dictionaries and store nothing.
Status(job_id) ==
    /\ scan_status(job_id).code \in {200, 404}
    /\ UNCHANGED vars

Results(job_id) ==
    /\ scan_results(job_id).code \in {200, 404}
    /\ UNCHANGED vars

Latest(scan_type) ==
    /\ latest_scan_results(scan_type).code \in {200, 400, 404}
    /\ UNCHANGED vars

ListJobs ==
    /\ list_jobs.code = 200
    /\ UNCHANGED vars

\* ------------------------------------------------------------ fetch_history
\* yf.Ticker(symbol).history(...): a frame with bars, an empty frame, or an exception
Raised == [kind |-> "raise", df |-> EmptyFrame]
Answer(df) == [kind |-> "df", df |-> df]
ProviderAnswers == {Raised} \cup {Answer(df) : df \in EmaFrames}

Intervals == {"1d", "1wk", "1h", "15m"}

\* line 80: max_retries=3
DefaultMaxRetries == 3

\* line 91 and 94 without the test: a sleep after every failure, the last too
AfterFailure_alwaysSleep(f) == [f EXCEPT !.pc = "sleep"]

\* line 91-92 and 94-95: sleep 2^attempt unless this was the last attempt
AfterFailure(f) ==
    IF f.attempt < f.max_retries - 1
    THEN [f EXCEPT !.pc = "sleep"]
    ELSE [f EXCEPT !.pc = "loop", !.attempt = @ + 1]

\* line 93 catching nothing: the exception leaves fetch_history
OnException_uncaught(f) == [f EXCEPT !.pc = "raised"]

\* line 93: except Exception
OnException(f) == AfterFailure(f)

\* line 88-89: a frame that is not empty is returned at once
OnFrame(f, df) ==
    IF df.n # 0 THEN [f EXCEPT !.pc = "returned", !.df = df] ELSE AfterFailure(f)

\* line 80: the call
FetchCall(symbol, interval, max_retries) ==
    /\ fh.pc = "idle"
    /\ fh' = [IdleFetch EXCEPT !.pc = "loop", !.symbol = symbol, !.interval = interval,
                               !.max_retries = max_retries]
    /\ UNCHANGED <<jobs, latest_results, worker, handler, calls, delays, now, ev, poll, lister, calc>>

\* line 85-95: one turn of the loop, up to the sleep
FetchAttempt ==
    /\ fh.pc = "loop"
    /\ fh.attempt < fh.max_retries
    /\ \E a \in ProviderAnswers :
         LET f == [fh EXCEPT !.log = Append(@, a)]
         IN  fh' = IF a.kind = "raise" THEN OnException(f) ELSE OnFrame(f, a.df)
    /\ UNCHANGED <<jobs, latest_results, worker, handler, calls, delays, now, ev, poll, lister, calc>>

\* line 92 and 95: time.sleep(2 ** attempt), then the next turn
FetchSleep ==
    /\ fh.pc = "sleep"
    /\ fh' = [fh EXCEPT !.pc = "loop", !.sleeps = Append(@, 2 ^ fh.attempt),
                        !.attempt = @ + 1]
    /\ UNCHANGED <<jobs, latest_results, worker, handler, calls, delays, now, ev, poll, lister, calc>>

\* line 96: the loop is over
FetchExhausted ==
    /\ fh.pc = "loop"
    /\ fh.attempt >= fh.max_retries
    /\ fh' = [fh EXCEPT !.pc = "returned", !.df = EmptyFrame]
    /\ UNCHANGED <<jobs, latest_results, worker, handler, calls, delays, now, ev, poll, lister, calc>>

\* the caller has the frame; the next call can start
FetchDone ==
    /\ fh.pc = "returned"
    /\ fh' = IdleFetch
    /\ UNCHANGED <<jobs, latest_results, worker, handler, calls, delays, now, ev, poll, lister, calc>>

FetchNext ==
    \/ \E symbol \in {TickerList[1]}, interval \in Intervals, n \in 0..MaxRetriesBound :
         FetchCall(symbol, interval, n)
    \/ FetchAttempt
    \/ FetchSleep
    \/ FetchExhausted
    \/ FetchDone

FetchSpec == Init /\ [][FetchNext]_vars

\* ------------------------------------------------------------ analyze_symbol
\* What the market can hand one call of the scan type's evaluator.
EvalMarket(scan_type) ==
    IF scan_type = "sma50" THEN [1..3 -> EvalSmaFrames] ELSE EvalEmaFrames

\* line 355-357: one evaluator called on the symbol
EvalCall ==
    /\ ev.fn = None
    /\ \E scan_type \in ScanTypes : \E data \in EvalMarket(scan_type) :
         ev' = [fn |-> scan_type, data |-> data,
                result |-> cfg_fn(scan_type, TickerList[1], data)]
    /\ UNCHANGED <<jobs, latest_results, worker, handler, calls, delays, now, fh, poll, lister, calc>>

\* src/sma50.py line 153: the scanner alone called on the symbol
StandaloneCall ==
    /\ ev.fn = None
    /\ \E data \in [1..3 -> EvalSmaFrames] :
         ev' = [fn |-> "multi_timeframe", data |-> data,
                result |-> analyze_multi_timeframe(TickerList[1], data)]
    /\ UNCHANGED <<jobs, latest_results, worker, handler, calls, delays, now, fh, poll, lister, calc>>

\* the evaluator has returned; the next one can be called
EvalReturn ==
    /\ ev.fn # None
    /\ ev' = NoEvaluation
    /\ UNCHANGED <<jobs, latest_results, worker, handler, calls, delays, now, fh, poll, lister, calc>>

EvalNext ==
    \/ EvalCall
    \/ StandaloneCall
    \/ EvalReturn

EvalSpec == Init /\ [][EvalNext]_vars

\* ------------------------------------------------- scan_status, read by read
\* The handler runs in a thread of the server's pool, next to the workers: each
\* subscript on the job's dictionary is a read of its own.
PollJobs == 1

\* line 394-397
PollBegin(job_id) ==
    /\ poll.pc = "idle"
    /\ poll' = IF job_id \notin DOMAIN jobs
               THEN [NoPoll EXCEPT !.pc = "returned", !.job_id = job_id,
                                   !.response.code = 404]
               ELSE [NoPoll EXCEPT !.pc = "cond", !.job_id = job_id]
    /\ UNCHANGED <<jobs, latest_results, worker, handler, calls, delays, now, fh, ev, lister, calc>>

\* line 398: ... if job["total"] else 0
PollCond ==
    /\ poll.pc = "cond"
    /\ poll' = IF jobs[poll.job_id].total # 0
               THEN [poll EXCEPT !.pc = "num"]
               ELSE [poll EXCEPT !.pc = "status", !.pct = 0]
    /\ UNCHANGED <<jobs, latest_results, worker, handler, calls, delays, now, fh, ev, lister, calc>>

\* line 398: job["progress"]
PollNum ==
    /\ poll.pc = "num"
    /\ poll' = [poll EXCEPT !.pc = "den", !.num = jobs[poll.job_id].progress]
    /\ UNCHANGED <<jobs, latest_results, worker, handler, calls, delays, now, fh, ev, lister, calc>>

\* line 398: / job["total"], * 100, round(.., 1)
PollDen ==
    /\ poll.pc = "den"
    /\ poll' = [poll EXCEPT !.pc = "status",
                            !.pct = Percent(poll.num, jobs[poll.job_id].total)]
    /\ UNCHANGED <<jobs, latest_results, worker, handler, calls, delays, now, fh, ev, lister, calc>>

\* line 405
PollStatus ==
    /\ poll.pc = "status"
    /\ poll' = [poll EXCEPT !.pc = "progress",
                            !.response.status = jobs[poll.job_id].status]
    /\ UNCHANGED <<jobs, latest_results, worker, handler, calls, delays, now, fh, ev, lister, calc>>

\* line 406
PollProgress ==
    /\ poll.pc = "progress"
    /\ poll' = [poll EXCEPT !.pc = "total",
                            !.response.progress = jobs[poll.job_id].progress]
    /\ UNCHANGED <<jobs, latest_results, worker, handler, calls, delays, now, fh, ev, lister, calc>>

\* line 407-408
PollTotal ==
    /\ poll.pc = "total"
    /\ poll' = [poll EXCEPT !.pc = "so_far",
                            !.response.total = jobs[poll.job_id].total,
                            !.response.percent = poll.pct]
    /\ UNCHANGED <<jobs, latest_results, worker, handler, calls, delays, now, fh, ev, lister, calc>>

\* line 409
PollSoFar ==
    /\ poll.pc = "so_far"
    /\ poll' = [poll EXCEPT !.pc = "count",
                            !.response.results_so_far = Len(Deref(jobs[poll.job_id].results))]
    /\ UNCHANGED <<jobs, latest_results, worker, handler, calls, delays, now, fh, ev, lister, calc>>

\* line 410
PollCount ==
    /\ poll.pc = "count"
    /\ poll' = [poll EXCEPT !.pc = "completed_at",
                            !.response.results_count = Len(Deref(jobs[poll.job_id].results))]
    /\ UNCHANGED <<jobs, latest_results, worker, handler, calls, delays, now, fh, ev, lister, calc>>

\* line 412
PollCompletedAt ==
    /\ poll.pc = "completed_at"
    /\ poll' = [poll EXCEPT !.pc = "results",
                            !.response.completed_at = jobs[poll.job_id].completed_at]
    /\ UNCHANGED <<jobs, latest_results, worker, handler, calls, delays, now, fh, ev, lister, calc>>

\* line 414: the response holds the list object, not a copy
PollResults ==
    /\ poll.pc = "results"
    /\ poll' = [poll EXCEPT !.pc = "return", !.ref = jobs[poll.job_id].results]
    /\ UNCHANGED <<jobs, latest_results, worker, handler, calls, delays, now, fh, ev, lister, calc>>

\* line 416: the framework serialises the response, the list as it is by then
PollReturn ==
    /\ poll.pc = "return"
    /\ poll' = [poll EXCEPT !.pc = "returned", !.response.code = 200,
                            !.response.results = Deref(poll.ref)]
    /\ UNCHANGED <<jobs, latest_results, worker, handler, calls, delays, now, fh, ev, lister, calc>>

\* the client has the response; it may poll again
PollDone ==
    /\ poll.pc = "returned"
    /\ poll' = NoPoll
    /\ UNCHANGED <<jobs, latest_results, worker, handler, calls, delays, now, fh, ev, lister, calc>>

PollJobIds == 1..PollJobs

PollNext ==
    \/ \E t \in ScanTypes : Cardinality(DOMAIN jobs) < PollJobs /\ StartInsert(t)
    \/ \E j \in PollJobIds : StartThread(j)
    \/ \E j \in PollJobIds : StartReturn(j)
    \/ \E j \in PollJobIds : WorkerLoad(j)
    \/ \E j \in PollJobIds : WorkerBegin(j)
    \/ \E j \in PollJobIds : WorkerEval(j)
    \/ \E j \in PollJobIds : WorkerProgress(j)
    \/ \E j \in PollJobIds : WorkerPublish(j)
    \/ \E j \in PollJobIds : WorkerSleep(j)
    \/ \E j \in PollJobIds : WorkerFinish(j)
    \/ \E j \in PollJobIds : WorkerSnapshot(j)
    \/ \E job_id \in ClientIds : PollBegin(job_id)
    \/ PollCond
    \/ PollNum
    \/ PollDen
    \/ PollStatus
    \/ PollProgress
    \/ PollTotal
    \/ PollSoFar
    \/ PollCount
    \/ PollCompletedAt
    \/ PollResults
    \/ PollReturn
    \/ PollDone

PollSpec == Init /\ [][PollNext]_vars

\* ----------------------------------------------------- list_jobs, step by step
\* The handler runs in a thread of the server's pool, next to the handlers of
\* start requests, which insert into the dictionary it iterates.

\* line 456-457: summary = [], and the iterator of jobs.items() is made; it
\* remembers how many entries the dictionary has
ListBegin ==
    /\ lister.pc = "idle"
    /\ lister' = [NoListing EXCEPT !.pc = "next", !.used = Cardinality(DOMAIN jobs)]
    /\ UNCHANGED <<jobs, latest_results, worker, handler, calls, delays, now, fh, ev, poll, calc>>

\* line 457: the for statement asks the iterator for the next entry; a
\* dictionary of another size than the iterator remembers makes it raise
\* RuntimeError (dictionary changed size during iteration), which nothing in
\* the handler catches
ListIterate ==
    /\ lister.pc = "next"
    /\ lister' = IF Cardinality(DOMAIN jobs) # lister.used
                 THEN [lister EXCEPT !.pc = "raised", !.response.code = 500]
                 ELSE IF lister.pos < lister.used
                 THEN [lister EXCEPT !.pc = "body", !.pos = @ + 1]
                 ELSE [lister EXCEPT !.pc = "sort"]
    /\ UNCHANGED <<jobs, latest_results, worker, handler, calls, delays, now, fh, ev, poll, calc>>

\* line 458-468
ListBody ==
    /\ lister.pc = "body"
    /\ lister' = [lister EXCEPT !.pc = "next", !.summary = Append(@, Summary(lister.pos))]
    /\ UNCHANGED <<jobs, latest_results, worker, handler, calls, delays, now, fh, ev, poll, calc>>

\* line 469
ListSort ==
    /\ lister.pc = "sort"
    /\ lister' = [lister EXCEPT !.pc = "returned",
                                !.response = [code |-> 200,
                                              jobs |-> sorted_reverse(lister.summary)]]
    /\ UNCHANGED <<jobs, latest_results, worker, handler, calls, delays, now, fh, ev, poll, calc>>

\* the client has the response or the error; it may ask again
ListDone ==
    /\ lister.pc \in {"returned", "raised"}
    /\ lister' = NoListing
    /\ UNCHANGED <<jobs, latest_results, worker, handler, calls, delays, now, fh, ev, poll, calc>>

ListNext ==
    \/ \E t \in ScanTypes : StartInsert(t)
    \/ \E j \in JobIds : StartThread(j)
    \/ \E j \in JobIds : StartReturn(j)
    \/ ListBegin
    \/ ListIterate
    \/ ListBody
    \/ ListSort
    \/ ListDone

ListSpec == Init /\ [][ListNext]_vars

\* ------------------------------------------ calculate_ema and calculate_sma
MaxSeries == 4
MaxPeriod == 3
CalcPrices == {1, 2, 4}
CalcSeries == UNION {[1..n -> CalcPrices] : n \in 0..MaxSeries}

\* line 68 / 74: the call
CalcCall ==
    /\ calc.fn = None
    /\ \E fn \in {"calculate_ema", "calculate_sma"}, prices \in CalcSeries,
          period \in 1..MaxPeriod :
         calc' = [fn |-> fn, prices |-> prices, period |-> period,
                  result |-> IF fn = "calculate_ema" THEN calculate_ema(prices, period)
                             ELSE calculate_sma(prices, period)]
    /\ UNCHANGED <<jobs, latest_results, worker, handler, calls, delays, now, fh, ev, poll, lister>>

\* the caller has the series; the next call can be made
CalcReturn ==
    /\ calc.fn # None
    /\ calc' = NoCalculation
    /\ UNCHANGED <<jobs, latest_results, worker, handler, calls, delays, now, fh, ev, poll, lister>>

CalcNext ==
    \/ CalcCall
    \/ CalcReturn

CalcSpec == Init /\ [][CalcNext]_vars

\* --------------------------------------------------------------------- Next
Next ==
    \/ \E t \in ScanTypes : StartInsert(t)
    \/ \E j \in JobIds : StartThread(j)
    \/ \E j \in JobIds : StartReturn(j)
    \/ \E j \in JobIds : WorkerLoad(j)
    \/ \E j \in JobIds : WorkerBegin(j)
    \/ \E j \in JobIds : WorkerEval(j)
    \/ \E j \in JobIds : WorkerProgress(j)
    \/ \E j \in JobIds : WorkerPublish(j)
    \/ \E j \in JobIds : WorkerSleep(j)
    \/ \E j \in JobIds : WorkerFinish(j)
    \/ \E j \in JobIds : WorkerSnapshot(j)
    \/ \E j \in ClientIds : Status(j)
    \/ \E j \in ClientIds : Results(j)
    \/ \E t \in ScanTypeInputs : Latest(t)
    \/ ListJobs

Spec == Init /\ [][Next]_vars

\* The thread of job j, from line 273 to line 308.
WorkerStep(j) ==
    \/ WorkerLoad(j)
    \/ WorkerBegin(j)
    \/ WorkerEval(j)
    \/ WorkerProgress(j)
    \/ WorkerPublish(j)
    \/ WorkerSleep(j)
    \/ WorkerFinish(j)
    \/ WorkerSnapshot(j)

\* The interpreter keeps switching between its threads: a handler that has
\* stored the record goes on to start the thread, and a started thread is
\* given its turn; the evaluator and time.sleep return.
LiveJobs == 1
LiveJobIds == 1..LiveJobs

LiveNext ==
    \/ \E t \in ScanTypes : Cardinality(DOMAIN jobs) < LiveJobs /\ StartInsert(t)
    \/ \E j \in LiveJobIds : StartThread(j)
    \/ \E j \in LiveJobIds : StartReturn(j)
    \/ \E j \in LiveJobIds : WorkerStep(j)
    \/ \E j \in ClientIds : Status(j)
    \/ \E j \in ClientIds : Results(j)
    \/ \E t \in ScanTypeInputs : Latest(t)
    \/ ListJobs

LiveSpec ==
    /\ Init
    /\ [][LiveNext]_vars
    /\ \A j \in LiveJobIds : WF_vars(StartThread(j)) /\ WF_vars(WorkerStep(j))

\* ============================================================== properties
Allowed == {<<"queued", "running">>, <<"queued", "failed">>, <<"running", "completed">>}

\* the signals among the evaluator's outputs, in the order of the calls
RECURSIVE Fired(_)
Fired(log) ==
    IF log = <<>> THEN <<>>
    ELSE IF Head(log).result # NoSignal THEN <<Head(log).result>> \o Fired(Tail(log))
    ELSE Fired(Tail(log))

IsPrefix(a, b) == Len(a) <= Len(b) /\ SubSeq(b, 1, Len(a)) = a

CompletedOfType(t) ==
    {j \in DOMAIN jobs : jobs[j].scan_type = t /\ jobs[j].status = "completed"}

\* C1: a job is created queued, its status changes only queued->running,
\* queued->failed or running->completed, and a completed or failed job keeps its
\* status in every later step of any worker or handler.
C1_LifecycleForward ==
    [][/\ \A j \in DOMAIN jobs :
            /\ j \in DOMAIN jobs'
            /\ \/ jobs'[j].status = jobs[j].status
               \/ <<jobs[j].status, jobs'[j].status>> \in Allowed
       /\ \A j \in DOMAIN jobs' \ DOMAIN jobs : jobs'[j].status = "queued"]_vars

C1_Witness ==
    \E j, k \in DOMAIN jobs :
        /\ jobs[j].status = "completed" /\ worker[j].pc = "done"
        /\ jobs[k].status = "failed" /\ worker[k].pc = "done"

\* C2: in every state 0 <= progress <= total for every job (queued with total 0
\* included), and no step lowers a job's progress.
C2_ProgressMonotoneBounded ==
    /\ [](\A j \in DOMAIN jobs : 0 <= jobs[j].progress /\ jobs[j].progress <= jobs[j].total)
    /\ [][\A j \in DOMAIN jobs : jobs'[j].progress >= jobs[j].progress]_vars

C2_Witness ==
    \E j \in DOMAIN jobs :
        jobs[j].status = "running" /\ jobs[j].progress = 1 /\ jobs[j].total = 2

\* C3: every answer of status and of results for a job start has returned
\* reports at most as many results as the progress it reports.
C3_ResultsWithinProgress ==
    \A j \in Issued :
        /\ scan_status(j).results_count <= scan_status(j).progress
        /\ scan_results(j).results_count <= scan_results(j).total_scanned

\* C4: every status answer with progress = k holds, in order, the signal of
\* every one of the first k symbols whose evaluator fired.
C4_LivePeek ==
    \A j \in Issued :
        LET r == scan_status(j)
        IN  /\ r.progress <= Len(calls[j])
            /\ IsPrefix(Fired(SubSeq(calls[j], 1, r.progress)), r.results)

\* C5: a worker that loaded a non-empty universe never fails its job, and once
\* it is through the job is completed with total = progress = size of the
\* universe, one evaluator call per universe entry in universe order, and
\* results exactly the signals those calls returned, in that order.
C5_ScanEndsCompleted ==
    \A j \in DOMAIN jobs :
        worker[j].symbols # <<>> =>
            /\ jobs[j].status # "failed"
            /\ worker[j].pc = "done" =>
                 /\ jobs[j].status = "completed"
                 /\ jobs[j].total = Len(worker[j].symbols)
                 /\ jobs[j].progress = Len(worker[j].symbols)
                 /\ [k \in 1..Len(calls[j]) |-> calls[j][k].symbol] = worker[j].symbols
                 /\ Deref(jobs[j].results) = Fired(calls[j])

C5_Witness ==
    \E j \in DOMAIN jobs :
        /\ worker[j].pc = "done"
        /\ jobs[j].scan_type = "ema_daily"
        /\ worker[j].symbols = <<"AAA", "BBB">>
        /\ calls[j][1].result # NoSignal
        /\ calls[j][2].result = NoSignal
        /\ jobs[j].status = "completed" /\ jobs[j].total = 2 /\ jobs[j].progress = 2
        /\ Len(Deref(jobs[j].results)) = 1
        /\ Deref(jobs[j].results)[1].symbol = "AAA"

\* C6: a completed job that completed later than every other completed job of
\* its scan type is what latest(scanType) returns: the request succeeds with
\* that job's results and completion timestamp.
C6_CompletedIsLatest ==
    \A j \in DOMAIN jobs :
        (/\ jobs[j].status = "completed"
         /\ \A k \in CompletedOfType(jobs[j].scan_type) \ {j} :
                jobs[k].completed_at < jobs[j].completed_at)
        => LET r == latest_scan_results(jobs[j].scan_type)
           IN  /\ r.code = 200
               /\ r.results = Deref(jobs[j].results)
               /\ r.completed_at = jobs[j].completed_at

\* C7: latest(scanType) is not-found for a valid scan type none of whose jobs is
\* completed, whatever the other jobs are, and an invalid request for an unknown
\* scan type.
C7_LatestNotFound ==
    /\ \A t \in ScanTypes :
           CompletedOfType(t) = {} => latest_scan_results(t).code = 404
    /\ \A t \in ScanTypeInputs \ ScanTypes : latest_scan_results(t).code = 400

C7_Witness ==
    \E j, k \in DOMAIN jobs :
        /\ jobs[j].status = "running"
        /\ jobs[k].status = "completed"
        /\ jobs[k].scan_type # jobs[j].scan_type
        /\ latest_scan_results(jobs[k].scan_type).code = 200
        /\ latest_scan_results(jobs[j].scan_type).code = 404

\* C8: status and results are not-found for an id start never handed out and
\* found for every id it returned; the record is stored, queued with progress 0,
\* total 0, no results and no completion time, before the worker is launched and
\* before start returns; no record is ever removed.
C8_IssuedIdsQueryable ==
    /\ [](/\ \A j \in ClientIds :
                /\ scan_status(j).code = 404 <=> j \notin Issued
                /\ scan_results(j).code = 404 <=> j \notin Issued
          /\ \A j \in JobIds :
                /\ (handler[j] # "idle" \/ worker[j].pc # "unstarted") => j \in DOMAIN jobs
                /\ handler[j] = "inserted" =>
                     /\ worker[j].pc = "unstarted"
                     /\ jobs[j].status = "queued"
                     /\ jobs[j].progress = 0 /\ jobs[j].total = 0
                     /\ Deref(jobs[j].results) = <<>>
                     /\ jobs[j].completed_at = NoTime)
    /\ [][DOMAIN jobs \subseteq DOMAIN jobs']_vars

C8_Witness ==
    /\ scan_status(UnknownId).code = 404
    /\ scan_results(UnknownId).code = 404
    /\ \E j \in Issued :
        /\ worker[j].pc = "done"
        /\ scan_status(j).code = 200
        /\ scan_results(j).code = 200
    /\ \E j \in JobIds : handler[j] = "inserted"

\* C9: a worker that finds no symbols takes its job from queued to failed with
\* an error message and is through: the job was never running, no evaluator was
\* called, no delay taken, total, progress and results are 0, 0 and empty, and
\* the step writes no snapshot; every snapshot is of a completed job.
C9_EmptyUniverseFails ==
    /\ [](/\ \A j \in DOMAIN jobs :
                /\ (worker[j].pc \notin {"unstarted", "load"} /\ worker[j].symbols = <<>>)
                      => (jobs[j].status = "failed" /\ worker[j].pc = "done")
                /\ jobs[j].status = "failed" =>
                     /\ worker[j].symbols = <<>>
                     /\ jobs[j].error # None
                     /\ jobs[j].total = 0 /\ jobs[j].progress = 0
                     /\ Deref(jobs[j].results) = <<>>
                     /\ calls[j] = <<>> /\ delays[j] = <<>>
          /\ \A t \in DOMAIN latest_results :
                jobs[latest_results[t].results.job].status = "completed")
    /\ [][\A j \in DOMAIN jobs :
            (jobs'[j].status = "failed" /\ jobs[j].status # "failed") =>
                /\ jobs[j].status = "queued"
                /\ latest_results' = latest_results
                /\ worker'[j].pc = "done"]_vars

C9_Witness ==
    \E j, k \in DOMAIN jobs :
        /\ jobs[j].status = "failed" /\ jobs[j].error # None
        /\ jobs[k].status = "completed" /\ jobs[k].scan_type = jobs[j].scan_type
        /\ jobs[j].scan_type \in DOMAIN latest_results

FailedAnswer(a) == a.kind = "raise" \/ a.df.n = 0

\* C10: fetch_history never raises; it calls the provider at most max_retries
\* times; a frame with bars ends it at once and is what it returns; it returns
\* an empty frame exactly when all max_retries calls came back empty or raised.
C10_FetchNeverRaises ==
    /\ fh.pc \in {"idle", "loop", "sleep", "returned"}
    /\ Len(fh.log) <= fh.max_retries
    /\ \A k \in 1..Len(fh.log) - 1 : FailedAnswer(fh.log[k])
    /\ fh.pc = "returned" =>
         IF fh.log # <<>> /\ ~FailedAnswer(fh.log[Len(fh.log)])
         THEN fh.df = fh.log[Len(fh.log)].df
         ELSE fh.df.n = 0 /\ Len(fh.log) = fh.max_retries
    /\ (fh.log # <<>> /\ ~FailedAnswer(fh.log[Len(fh.log)])) => fh.pc = "returned"

C10_Witness ==
    /\ fh.pc = "returned"
    /\ fh.max_retries = 3
    /\ Len(fh.log) = 3
    /\ fh.log[1].kind = "df"
    /\ fh.log[3].kind = "raise"
    /\ fh.df.n = 0

\* Attempts of this call (1-based in the log) that failed with attempts left.
FailedWithMore == {k \in 1..Len(fh.log) : FailedAnswer(fh.log[k]) /\ k < fh.max_retries}

AllFailed == \A k \in 1..Len(fh.log) : FailedAnswer(fh.log[k])

SixHold(df) ==
    /\ Round2(df.Close) > Round2(df.EMA10)
    /\ Round2(df.Close) > Round2(df.EMA20)
    /\ Round2(df.Close) > Round2(df.EMA40)
    /\ df.prevClose < df.prevEMA10
    /\ Round2(df.EMA20) > Round2(df.EMA40)
    /\ Round2(df.EMA10) > Round2(df.EMA20)

\* C12: the daily and the weekly EMA evaluator return a signal exactly when the
\* frame has at least 41 bars and all six comparisons hold (the last bar's
\* values rounded to cents, the previous bar's raw); one comparison false, an
\* equality included, an empty frame or fewer than 41 bars give no signal.
C12_EmaSignalIffSix ==
    ev.fn \in {"ema_daily", "ema_weekly"} =>
        /\ ev.result # NoSignal <=> (ev.data.n >= 41 /\ SixHold(ev.data))
        /\ ev.result # NoSignal =>
              /\ ev.result.signal = "BULLISH"
              /\ ev.result.timeframe = (IF ev.fn = "ema_daily" THEN "daily" ELSE "weekly")

\* 41 bars, five comparisons hold, and the close is above the EMA10 by less
\* than rounding keeps: no signal.
C12_Witness ==
    /\ ev.fn = "ema_weekly"
    /\ ev.data.n = 41
    /\ ev.data.Close > ev.data.EMA10
    /\ Round2(ev.data.Close) = Round2(ev.data.EMA10)
    /\ Round2(ev.data.Close) > Round2(ev.data.EMA20)
    /\ Round2(ev.data.EMA20) > Round2(ev.data.EMA40)
    /\ ev.data.prevClose < ev.data.prevEMA10
    /\ ev.result = NoSignal

Defined(df) == ~df.fault /\ df.n >= 51

\* C13: the SMA50 evaluator of the scan jobs returns a signal exactly when all
\* three positions are defined and all are above; an undefined position (empty
\* fetch, fewer than 51 bars, a fault) gives no signal; it never reports a
\* bearish signal.
C13_SmaSignalIffAllAbove ==
    ev.fn = "sma50" =>
        /\ ev.result # NoSignal <=>
              \A k \in 1..3 : /\ Defined(ev.data[k])
                              /\ Round2(ev.data[k].Close) > Round2(ev.data[k].SMA50)
        /\ ev.result # NoSignal => ev.result.signal = "BULLISH"

\* all three positions defined and below: no signal
C13_Witness ==
    /\ ev.fn = "sma50"
    /\ \A k \in 1..3 : /\ Defined(ev.data[k])
                        /\ Round2(ev.data[k].Close) < Round2(ev.data[k].SMA50)
    /\ ev.result = NoSignal

\* C14: every status response carries percent = 0 when the total it reports is
\* 0 and otherwise round(progress / total * 100, 1) of the progress and total
\* it reports, also when the worker writes while the handler reads; percent
\* is within 0..100.  (Percent counts tenths of a percent.)
C14_PercentOfReported ==
    (poll.pc = "returned" /\ poll.response.code = 200) =>
        /\ poll.response.percent = Percent(poll.response.progress, poll.response.total)
        /\ poll.response.percent \in 0..1000

\* C15: under fair scheduling every job in the store ends completed or failed:
\* a symbol whose evaluation gives no signal (fault, empty fetch, too little
\* history) does not stop the worker, and no request takes the job out of
\* its course.
C15_JobsTerminate ==
    \A j \in LiveJobIds :
        (j \in DOMAIN jobs) ~>
            (j \in DOMAIN jobs /\ jobs[j].status \in {"completed", "failed"})

\* a job that completed after its first symbol gave no signal and its second
\* symbol a signal
C15_Witness ==
    \E j \in DOMAIN jobs :
        /\ jobs[j].status = "completed"
        /\ jobs[j].total = 2
        /\ Len(calls[j]) = 2
        /\ calls[j][1].result = NoSignal
        /\ calls[j][2].result # NoSignal

\* A job's record and a scan type's snapshot as a reader finds them, the
\* result list by its contents.
JobRecord(k) == [jobs[k] EXCEPT !.results = Deref(@)]
NoSnapshot == [scan_type |-> None]
Snapshot(t) ==
    IF t \in DOMAIN latest_results
    THEN [latest_results[t] EXCEPT !.results = Deref(@)]
    ELSE NoSnapshot

\* C16: once created, a job's record changes only in steps of its own worker; a
\* step of the worker of job j (its failing on a missing universe included)
\* leaves the record of every other job and the snapshot of every other scan
\* type as they were; a step that is not a worker's (a status, results, latest
\* or list query, a start request) changes no existing record and no snapshot.
C16_OnlyOwnWorkerWrites ==
    [][/\ \A k \in DOMAIN jobs : JobRecord(k)' # JobRecord(k) => worker'[k] # worker[k]
       /\ \A j \in DOMAIN jobs :
            worker'[j] # worker[j] =>
                /\ \A k \in DOMAIN jobs \ {j} : JobRecord(k)' = JobRecord(k)
                /\ \A t \in ScanTypes \ {jobs[j].scan_type} : Snapshot(t)' = Snapshot(t)
       /\ worker' = worker =>
                /\ \A k \in DOMAIN jobs : JobRecord(k)' = JobRecord(k)
                /\ \A t \in ScanTypes : Snapshot(t)' = Snapshot(t)]_vars

\* one job has failed on a missing universe and another job, of another scan
\* type, has completed and written its snapshot
C16_Witness ==
    \E j, k \in DOMAIN jobs :
        /\ jobs[j].status = "failed"
        /\ jobs[k].status = "completed"
        /\ jobs[k].scan_type # jobs[j].scan_type
        /\ worker[k].pc = "done"
        /\ DOMAIN latest_results = {jobs[k].scan_type}

\* C17: a job's completion timestamp is null while the job is queued or
\* running and is set once the job is completed or failed.
C17_StampedWhenTerminal ==
    \A j \in DOMAIN jobs :
        /\ jobs[j].status \in {"queued", "running"} => jobs[j].completed_at = NoTime
        /\ jobs[j].status \in {"completed", "failed"} => jobs[j].completed_at # NoTime

\* C18 as stated: no two jobs of the same scan type are running at once.
C18_OneRunningPerType ==
    \A j, k \in DOMAIN jobs :
        (j # k /\ jobs[j].status = "running" /\ jobs[k].status = "running") =>
            jobs[j].scan_type # jobs[k].scan_type

\* C18 (as amended): two jobs of the same scan type can be running at once;
\* the writes to that type's snapshot are still one after the other, each a
\* single store of the complete entry of one job: in a step that changes the
\* snapshots exactly one worker moves past line 301, only the entry of its
\* scan type changes, and the new entry is that job's completion timestamp,
\* total, result count and results.
C18_SnapshotWritesOneAtATime ==
    [][latest_results' # latest_results =>
        \E j \in DOMAIN jobs :
            /\ worker[j].pc = "snapshot" /\ worker'[j].pc = "done"
            /\ \A k \in DOMAIN jobs \ {j} : worker'[k] = worker[k]
            /\ \A t \in ScanTypes \ {jobs[j].scan_type} : Snapshot(t)' = Snapshot(t)
            /\ Snapshot(jobs[j].scan_type)' =
                 [scan_type |-> jobs[j].scan_type, label |-> jobs[j].label,
                  completed_at |-> jobs[j].completed_at, total_scanned |-> jobs[j].total,
                  results_count |-> Len(Deref(jobs[j].results)),
                  results |-> Deref(jobs[j].results)]]_vars

\* two jobs of one scan type with different results have both written the
\* snapshot of their type
C18_Witness ==
    /\ DOMAIN jobs = {1, 2}
    /\ jobs[1].scan_type = jobs[2].scan_type
    /\ worker[1].pc = "done" /\ worker[2].pc = "done"
    /\ jobs[1].status = "completed" /\ jobs[2].status = "completed"
    /\ Len(Deref(jobs[1].results)) # Len(Deref(jobs[2].results))
    /\ Snapshot(jobs[1].scan_type).results_count = Len(Deref(jobs[1].results))

\* C19: a list request that iterates the store while start requests insert
\* records never fails, and it returns a summary for every job that was in
\* the store when it began.
C19_ListingSurvivesInserts ==
    /\ lister.pc # "raised"
    /\ lister.pc = "returned" =>
         \A jid \in 1..lister.used :
             \E k \in 1..Len(lister.response.jobs) : lister.response.jobs[k].job_id = jid

\* C20: the list that list_jobs returns has exactly one summary for each job
\* of the store it iterated, each the summary of that job, in the order of the
\* start timestamps from the most recent to the least recent.
C20_OnePerJobNewestFirst ==
    lister.pc = "returned" =>
        LET r == lister.response.jobs
        IN  /\ Len(r) = lister.used
            /\ {r[k].job_id : k \in 1..Len(r)} = 1..lister.used
            /\ Cardinality(DOMAIN jobs) = lister.used =>
                  {r[k].job_id : k \in 1..Len(r)} = DOMAIN jobs
            /\ \A k \in 1..Len(r) : r[k] = Summary(r[k].job_id)
            /\ \A k \in 1..Len(r) - 1 : r[k].started_at >= r[k + 1].started_at

\* two jobs started at different times, the later one listed first
C20_Witness ==
    /\ lister.pc = "returned"
    /\ Len(lister.response.jobs) = 2
    /\ lister.response.jobs[1].job_id = 2
    /\ lister.response.jobs[2].job_id = 1
    /\ lister.response.jobs[1].started_at > lister.response.jobs[2].started_at

\* C21: a status response that reports completed, also one read while the
\* worker makes its last writes, reports progress = total = the size of the
\* universe, a completion timestamp that is not null and the job's full final
\* list of results, with its length in both counts.
C21_CompletedResponseIsFinal ==
    (poll.pc = "returned" /\ poll.response.code = 200
                          /\ poll.response.status = "completed") =>
        LET j == poll.job_id
        IN  /\ poll.response.progress = poll.response.total
            /\ poll.response.total = Len(worker[j].symbols)
            /\ poll.response.completed_at # NoTime
            /\ poll.response.completed_at = jobs[j].completed_at
            /\ Len(calls[j]) = Len(worker[j].symbols)
            /\ poll.response.results = Fired(calls[j])
            /\ poll.response.results_so_far = Len(Fired(calls[j]))
            /\ poll.response.results_count = Len(Fired(calls[j]))

\* the handler computed the percentage while the job was at 1 of 2 and read
\* the status after the worker's last update
C21_Witness ==
    /\ poll.pc = "returned"
    /\ poll.response.status = "completed"
    /\ poll.response.percent = 500
    /\ poll.response.progress = 2
    /\ poll.response.results # <<>>

\* prices[a] + ... + prices[b]
RECURSIVE SumOf(_, _, _)
SumOf(prices, a, b) == IF a > b THEN 0 ELSE prices[a] + SumOf(prices, a + 1, b)

\* C22: for a series shorter than the period calculate_ema and calculate_sma
\* return None, not a series; for a series of at least period prices the SMA
\* is NaN on exactly the first period - 1 positions and the arithmetic mean of
\* the last period prices on every other, and the EMA has a value on every
\* position, the first being the first price.
C22_IndicatorsDefined ==
    calc.fn # None =>
        LET n == Len(calc.prices)
            v == calc.result.values
        IN  /\ calc.result.none <=> n < calc.period
            /\ calc.result.none => v = <<>>
            /\ ~calc.result.none =>
                 /\ Len(v) = n
                 /\ calc.fn = "calculate_sma" =>
                      \A k \in 1..n :
                          IF k < calc.period THEN v[k] = NaN
                          ELSE /\ v[k].den = calc.period
                               /\ v[k].num = SumOf(calc.prices, k - calc.period + 1, k)
                 /\ calc.fn = "calculate_ema" =>
                      /\ \A k \in 1..n : v[k].den > 0
                      /\ v[1].num = calc.prices[1] * v[1].den

\* a window of 3 over 4 prices: two positions of warm-up, then the means
C22_Witness ==
    /\ calc.fn = "calculate_sma"
    /\ calc.period = 3
    /\ calc.prices = <<1, 2, 4, 4>>
    /\ calc.result.values = <<NaN, NaN, [num |-> 7, den |-> 3], [num |-> 10, den |-> 3]>>

\* the pacing delay of a scan type, in tenths of a second
Pacing(scan_type) == IF scan_type = "sma50" THEN 10 ELSE 5

\* C23: the worker sleeps exactly once after every evaluation, signal or not,
\* 0.5 s in an EMA job and 1.0 s in an SMA50 job, the last symbol included: a
\* job is completed only after as many delays as it has symbols, and before
\* the last delay is over a reader finds progress = total with status running.
C23_OneDelayPerSymbol ==
    \A j \in DOMAIN jobs :
        /\ \A k \in 1..Len(delays[j]) : delays[j][k] = Pacing(jobs[j].scan_type)
        /\ Len(delays[j]) = Len(calls[j])
                            - (IF worker[j].pc \in {"progress", "publish", "sleep"} THEN 1 ELSE 0)
        /\ worker[j].pc = "eval" => Len(calls[j]) = worker[j].i - 1
        /\ jobs[j].status = "completed" =>
              /\ Len(delays[j]) = jobs[j].total
              /\ Len(calls[j]) = jobs[j].total
        /\ (worker[j].pc = "sleep" /\ worker[j].i = Len(worker[j].symbols)) =>
              /\ jobs[j].status = "running"
              /\ jobs[j].progress = jobs[j].total

\* an SMA50 job whose two symbols gave no signal and a signal is about to
\* take its second delay: progress = total = 2 and still running
C23_Witness ==
    \E j \in DOMAIN jobs :
        /\ jobs[j].scan_type = "sma50"
        /\ worker[j].pc = "sleep"
        /\ delays[j] = <<10>>
        /\ Len(calls[j]) = 2
        /\ calls[j][1].result = NoSignal
        /\ calls[j][2].result # NoSignal
        /\ jobs[j].status = "running"
        /\ jobs[j].progress = 2 /\ jobs[j].total = 2

Above(df) == Defined(df) /\ Round2(df.Close) > Round2(df.SMA50)
Below(df) == Defined(df) /\ ~(Round2(df.Close) > Round2(df.SMA50))

\* C24: on the same three frames the scanner alone and the evaluator of the
\* scan jobs agree except when all three positions are below: both give no
\* signal when a position is undefined or the positions are mixed, both give
\* a bullish signal with the same prices and averages when all three are
\* above, and when all three are below the scanner alone gives a bearish
\* signal and the evaluator of the jobs none.
C24_StandaloneAgreesButBearish ==
    ev.fn = "multi_timeframe" =>
        LET job == analyze_sma50(TickerList[1], ev.data)
            all_above == \A k \in 1..3 : Above(ev.data[k])
            all_below == \A k \in 1..3 : Below(ev.data[k])
        IN  /\ all_above =>
                 /\ ev.result # NoSignal /\ job # NoSignal
                 /\ ev.result.Signal = "BULLISH (All Above SMA50)"
                 /\ job.signal = "BULLISH"
                 /\ <<ev.result.Daily_Price, ev.result.Daily_SMA50, ev.result.Hourly_Price,
                      ev.result.Hourly_SMA50, ev.result.Min15_Price, ev.result.Min15_SMA50>>
                    = <<job.daily_price, job.daily_sma50, job.hourly_price,
                        job.hourly_sma50, job.min15_price, job.min15_sma50>>
            /\ all_below =>
                 /\ ev.result # NoSignal
                 /\ ev.result.Signal = "BEARISH (All Below SMA50)"
                 /\ job = NoSignal
            /\ ~all_above /\ ~all_below => ev.result = NoSignal /\ job = NoSignal

\* all three positions below, one of them by a close equal to the average
C24_Witness ==
    /\ ev.fn = "multi_timeframe"
    /\ \A k \in 1..3 : Below(ev.data[k])
    /\ Round2(ev.data[1].Close) = Round2(ev.data[1].SMA50)
    /\ ev.result # NoSignal
    /\ analyze_sma50(TickerList[1], ev.data) = NoSignal

\* the jobs of scan type t that have written its snapshot (line 301 is behind them)
WrittenOfType(t) ==
    {j \in DOMAIN jobs : jobs[j].scan_type = t /\ worker[j].pc = "done"
                                               /\ jobs[j].status = "completed"}

\* C25: in every interleaving, several jobs of one scan type running at once
\* included, the snapshot of a scan type carries the latest completion
\* timestamp among the jobs of that type that have written it, and no
\* overwrite lowers the snapshot's completion timestamp.
C25_SnapshotNeverOlder ==
    /\ [](\A t \in DOMAIN latest_results :
            \A j \in WrittenOfType(t) :
                latest_results[t].completed_at >= jobs[j].completed_at)
    /\ [][\A t \in DOMAIN latest_results :
            latest_results'[t].completed_at >= latest_results[t].completed_at]_vars

\* C26: every snapshot there is was written by a completed job of its scan
\* type: it has that job's results and completion timestamp, the job's total
\* as total_scanned, and the length of the results, which is at most
\* total_scanned, as results_count; a job that is queued, running or failed
\* has written none.
C26_SnapshotOfCompletedJob ==
    /\ \A t \in DOMAIN latest_results :
         LET e == latest_results[t]
         IN  /\ t \in ScanTypes
             /\ e.scan_type = t
             /\ e.results_count = Len(Deref(e.results))
             /\ e.results_count <= e.total_scanned
             /\ \E j \in DOMAIN jobs :
                  /\ jobs[j].status = "completed"
                  /\ jobs[j].scan_type = t
                  /\ worker[j].pc = "done"
                  /\ e.results = jobs[j].results
                  /\ Deref(e.results) = Fired(calls[j])
                  /\ e.completed_at = jobs[j].completed_at
                  /\ e.total_scanned = jobs[j].total
                  /\ e.label = jobs[j].label
    /\ \A j \in DOMAIN jobs :
         jobs[j].status # "completed" => worker[j].pc \notin {"snapshot", "done"}
                                          \/ jobs[j].status = "failed"
    /\ \A t \in ScanTypes :
         (\A j \in DOMAIN jobs : jobs[j].scan_type = t => jobs[j].status # "completed")
             => t \notin DOMAIN latest_results

\* a job of two symbols and one signal has written its snapshot; the other
\* job, of the same scan type, has failed and left the snapshot alone
C26_Witness ==
    \E j, k \in DOMAIN jobs :
        /\ jobs[j].scan_type = jobs[k].scan_type
        /\ jobs[k].status = "failed"
        /\ jobs[j].status = "completed" /\ worker[j].pc = "done"
        /\ jobs[j].total = 2
        /\ latest_results[jobs[j].scan_type].results_count = 1
        /\ latest_results[jobs[j].scan_type].total_scanned = 2

====
